---- MODULE Spec2Model ----
(***************************************************************************)
(* DipoleMic: the tone burst generator (tbg.cpp) and analyzer (tba.cpp)    *)
(* and the toneBurst class they share (toneBurst.h, toneBurst.cpp).        *)
(*                                                                         *)
(* A run of either program is one behaviour: the command line and the file *)
(* are drawn in Init, and every action is one step of main() or one method *)
(* of toneBurst.  long is the 4-byte signed integer both programs assert,  *)
(* double is IEEE-754 binary64, computed bit for bit (see "double").       *)
(***************************************************************************)
EXTENDS Integers, Sequences, FiniteSets

(***************************************************************************)
(* Program constants (toneBurst.h) and the width of long.                  *)
(***************************************************************************)
SAMPLE_RATE == 44100
INTERVAL == 22050
BURST_LENGTH == 100
SweepBursts == 201
PolarBursts == 72
HeaderBytes == 36

MaxLong == 2147483647
MinLong == (-2147483647) - 1

(***************************************************************************)
(* double.  A positive finite binary64 value is [hi, lo, e] and stands for *)
(* (hi * 2^26 + lo) * 2^e with 2^26 <= hi < 2^27 and 0 <= lo < 2^26: a     *)
(* 53-bit significand in two limbs, since TLC's integers are 32 bits     *)
(* wide.  Products are taken on 13-bit digits.  Every operation    *)
(* rounds to nearest, ties to even, as the hardware does.                  *)
(***************************************************************************)
W == 67108864
H == 8192

RECURSIVE Pow2(_)
Pow2(k) == IF k <= 0 THEN 1 ELSE 2 * Pow2(k - 1)

RECURSIVE BitLen(_)
BitLen(v) == IF v <= 0 THEN 0 ELSE 1 + BitLen(v \div 2)

\* round a 53-bit significand (mhi, mlo) up by one unit when the guard bit
\* and (sticky or odd) say so, renormalising on carry out
RoundNE(mhi, mlo, e, guard, sticky) ==
    IF guard = 1 /\ (sticky \/ mlo % 2 = 1)
    THEN IF mlo + 1 < W THEN [hi |-> mhi, lo |-> mlo + 1, e |-> e]
         ELSE IF mhi + 1 < 2 * W THEN [hi |-> mhi + 1, lo |-> 0, e |-> e]
         ELSE [hi |-> W, lo |-> 0, e |-> e + 1]
    ELSE [hi |-> mhi, lo |-> mlo, e |-> e]

\* long -> double, exact for every 32-bit magnitude (v > 0)
FromLong(v) ==
    LET L == BitLen(v)
    IN  IF L <= 27
        THEN [hi |-> v * Pow2(27 - L), lo |-> 0, e |-> L - 53]
        ELSE [hi |-> v \div Pow2(L - 27),
              lo |-> (v % Pow2(L - 27)) * Pow2(53 - L), e |-> L - 53]

\* double * double
DMul(a, b) ==
    LET a0 == a.lo % H  a1 == a.lo \div H  a2 == a.hi % H  a3 == a.hi \div H
        b0 == b.lo % H  b1 == b.lo \div H  b2 == b.hi % H  b3 == b.hi \div H
        t0 == a0 * b0
        t1 == a0 * b1 + a1 * b0 + t0 \div H
        t2 == a0 * b2 + a1 * b1 + a2 * b0 + t1 \div H
        t3 == a0 * b3 + a1 * b2 + a2 * b1 + a3 * b0 + t2 \div H
        t4 == a1 * b3 + a2 * b2 + a3 * b1 + t3 \div H
        t5 == a2 * b3 + a3 * b2 + t4 \div H
        t6 == a3 * b3 + t5 \div H
        d0 == t0 % H  d1 == t1 % H  d2 == t2 % H  d3 == t3 % H
        Tlo == (t4 % H) + ((t5 % H) * H)
        Thi == t6
        low == d0 + d1 + d2
    IN  IF Thi >= 2 * W
        THEN RoundNE(Thi \div 2, ((Thi % 2) * (W \div 2)) + (Tlo \div 2),
                     a.e + b.e + 53, Tlo % 2, (low + d3) # 0)
        ELSE RoundNE(Thi, Tlo, a.e + b.e + 52,
                     d3 \div (H \div 2), (low + (d3 % (H \div 2))) # 0)

\* the long division behind DDiv: k more quotient bits of the remainder
\* (rhi, rlo) over the divisor (bhi, blo).  The steps are taken nine at a
\* time, and each state is computed before the next step starts, which keeps
\* the evaluation shallow.
RECURSIVE DivSteps(_, _, _, _)
DivSteps(s, bhi, blo, k) ==
    IF k = 0 THEN s
    ELSE LET r2lo == (2 * s.rlo) % W
             r2hi == (2 * s.rhi) + ((2 * s.rlo) \div W)
             ge == r2hi > bhi \/ (r2hi = bhi /\ r2lo >= blo)
             bit == IF ge THEN 1 ELSE 0
             t == [rhi |-> IF ~ge THEN r2hi
                           ELSE IF r2lo >= blo THEN r2hi - bhi ELSE r2hi - bhi - 1,
                   rlo |-> IF ~ge THEN r2lo
                           ELSE IF r2lo >= blo THEN r2lo - blo ELSE r2lo + W - blo,
                   qlo |-> (2 * s.qlo + bit) % W,
                   qhi |-> (2 * s.qhi) + ((2 * s.qlo + bit) \div W)]
         IN  IF t.rhi >= 0 THEN DivSteps(t, bhi, blo, k - 1) ELSE t

RECURSIVE DivLoop(_, _, _, _)
DivLoop(s, bhi, blo, k) ==
    IF k <= 9 THEN DivSteps(s, bhi, blo, k)
    ELSE LET t == DivSteps(s, bhi, blo, 9)
         IN  IF t.rhi >= 0 THEN DivLoop(t, bhi, blo, k - 9) ELSE t

\* double / double
DDiv(a, b) ==
    LET ge == a.hi > b.hi \/ (a.hi = b.hi /\ a.lo >= b.lo)
        q == IF ge
             THEN DivLoop([rhi |-> IF a.lo >= b.lo THEN a.hi - b.hi ELSE a.hi - b.hi - 1,
                           rlo |-> IF a.lo >= b.lo THEN a.lo - b.lo ELSE a.lo + W - b.lo,
                           qhi |-> 0, qlo |-> 1], b.hi, b.lo, 53)
             ELSE DivLoop([rhi |-> a.hi, rlo |-> a.lo, qhi |-> 0, qlo |-> 0],
                          b.hi, b.lo, 54)
    IN  RoundNE(q.qhi \div 2, ((q.qhi % 2) * (W \div 2)) + (q.qlo \div 2),
                a.e - b.e - (IF ge THEN 52 ELSE 53), q.qlo % 2, (q.rhi + q.rlo) # 0)

\* a < b on doubles
DLess(a, b) ==
    \/ a.e < b.e
    \/ a.e = b.e /\ (a.hi < b.hi \/ (a.hi = b.hi /\ a.lo < b.lo))

\* whether long(x) is defined: the truncated value fits in 32 bits
FitsLong(x) == x.e <= -22

\* long(x), truncation toward zero, where FitsLong(x)
Trunc(x) ==
    IF x.e <= -53 THEN 0
    ELSE IF x.e <= -26 THEN x.hi \div Pow2((-x.e) - 26)
    ELSE (x.hi * Pow2(26 + x.e)) + (x.lo \div Pow2(-x.e))

\* the doubles next to x
DSucc(x) == RoundNE(x.hi, x.lo, x.e, 1, TRUE)
DPred(x) ==
    IF x.lo > 0 THEN [x EXCEPT !.lo = x.lo - 1]
    ELSE IF x.hi > W THEN [x EXCEPT !.hi = x.hi - 1, !.lo = W - 1]
    ELSE [hi |-> 2 * W - 1, lo |-> W - 1, e |-> x.e - 1]

\* |d| as a double, for a long d # 0 (|MinLong| = 2^31 is no long)
FromLongMag(d) ==
    IF d = MinLong THEN [hi |-> W, lo |-> 0, e |-> -21]
    ELSE FromLong(IF d < 0 THEN -d ELSE d)

(***************************************************************************)
(* The doubles the runs below use: atof() of the start frequencies tried,  *)
(* and the defaults of the constructor and of init().                      *)
(***************************************************************************)
Dbl1 == [hi |-> 67108864, lo |-> 0, e |-> -52]
Dbl100 == [hi |-> 104857600, lo |-> 0, e |-> -46]
Dbl1000 == [hi |-> 131072000, lo |-> 0, e |-> -43]
Dbl10000 == [hi |-> 81920000, lo |-> 0, e |-> -39]
Dbl20000 == [hi |-> 81920000, lo |-> 0, e |-> -38]
Dbl1em5 == [hi |-> 87960930, lo |-> 14903537, e |-> -69]

\* pow(x, 1.0/200) of the C library, at the quotients stopFreq/startFreq the
\* start frequencies above give (x = 1e9 - ulp, 10000, 100, 10, 0.5)
PowTable ==
    { [x |-> [hi |-> 124999999, lo |-> 67108863, e |-> -23],
       y |-> [hi |-> 74435461, lo |-> 55678184, e |-> -52]],
      [x |-> [hi |-> 81920000, lo |-> 0, e |-> -39],
       y |-> [hi |-> 70271607, lo |-> 21586592, e |-> -52]],
      [x |-> [hi |-> 104857600, lo |-> 0, e |-> -46],
       y |-> [hi |-> 68672030, lo |-> 16852524, e |-> -52]],
      [x |-> [hi |-> 83886080, lo |-> 0, e |-> -49],
       y |-> [hi |-> 67885948, lo |-> 1417457, e |-> -52]],
      [x |-> [hi |-> 67108864, lo |-> 0, e |-> -53],
       y |-> [hi |-> 133753369, lo |-> 62899747, e |-> -53]] }

\* pow() is accurate to an ulp, not correctly rounded: any of the three
\* doubles around the tabulated value may come back
PowResults(x) ==
    LET y == (CHOOSE t \in PowTable : t.x = x).y
    IN  {DPred(y), y, DSucc(y)}

(***************************************************************************)
(* 32-bit long arithmetic where a result can leave the range.              *)
(***************************************************************************)
\* a + b for b >= 0, wrapping
AddWrap(a, b) ==
    IF a > MaxLong - b THEN (a - MaxLong) + (b - 1) + MinLong ELSE a + b

\* a - b, wrapping
SubWrap(a, b) ==
    IF b >= 0
    THEN IF a < MinLong + b THEN ((a - MinLong) - b) + MaxLong + 1 ELSE a - b
    ELSE IF a > MaxLong + b THEN ((a - MaxLong) + (MinLong - b)) - 1 ELSE a - b

\* 2 * y, wrapping
Mul2Wrap(y) ==
    LET q == 1073741824
    IN  IF y >= q THEN ((y - q) * 2) + MinLong
        ELSE IF y < -q THEN ((y + q) * 2 + q) + q
        ELSE y * 2

\* 2 * 2 * y, wrapping
Mul4Wrap(y) == Mul2Wrap(Mul2Wrap(y))

(***************************************************************************)
(* State.                                                                  *)
(***************************************************************************)
VARIABLES
    prog,        \* "tbg", "tba": which main() runs; "api": a client of the class
    args,        \* the command line: argc and the values of argv[2..5]
    file,        \* the file: whether it opens, whether the header transfers,
                 \* and how many 2-byte samples follow the header (tba) or the
                 \* device accepts after the header (tbg)
    pc,          \* position in main()
    ret,         \* main()'s return value, once pc = "exit"
    \* toneBurst data members (sampleRate and burstMin never change)
    duration, interval, numBurst, burstCount, numAvg, numCycle,
    nominalFreq, actualFreq, startFreq, stopFreq, freqIncr, sweep, delay,
    \* chunkSize of myRiff and of myData
    riffSize, dataSize,
    \* the stream: samples transferred after the header, eofbit, badbit
    pos, eofbit, badbit,
    shown,       \* lines showDetail() has printed
    call,        \* the last method a client called, and what it returned
    wave         \* the bursts the generator has put in the file: for each, the
                 \* sample it starts at and the values it was made with

inVars == <<prog, args, file>>
tbVars == <<duration, interval, numBurst, burstCount, numAvg, numCycle,
            nominalFreq, actualFreq, startFreq, stopFreq, freqIncr, sweep, delay>>
hdVars == <<riffSize, dataSize>>
ioVars == <<pos, eofbit, badbit>>
vars == <<inVars, pc, ret, tbVars, hdVars, ioVars, shown, call, wave>>

sampleRate == SAMPLE_RATE
burstMin == BURST_LENGTH

(***************************************************************************)
(* toneBurst methods.  Each is the set of outcomes of one call in the      *)
(* current state: a set, because long(x) of an x out of range and the last *)
(* bit of pow() are not fixed by the source.                               *)
(***************************************************************************)
\* the while loop of calc(): the first n >= n0 with q * n >= burstMin.
\* Beyond n0 the loop is run a block of numbers at a time.
TooShort(q, n) == DLess(DMul(q, FromLong(n)), FromLong(burstMin))

RECURSIVE CalcFrom(_, _)
CalcFrom(q, n) ==
    LET stop == { m \in n..(n + 7) : ~TooShort(q, m) }
    IN  IF stop = {} THEN CalcFrom(q, n + 8)
        ELSE CHOOSE m \in stop : \A k \in stop : m <= k

CalcCycles(q, n0) == IF TooShort(q, n0) THEN CalcFrom(q, n0 + 1) ELSE n0

\* long(x): the truncation, or what hardware leaves when x is out of range
LongOf(x) == IF FitsLong(x) THEN {Trunc(x)} ELSE {MinLong, MaxLong}

calc(n0, f) ==
    LET q == DDiv(FromLong(sampleRate), f)
        n == CalcCycles(q, n0)
        x == DMul(q, FromLong(n))
    IN  { [numCycle |-> n, duration |-> d,
           actualFreq |-> [neg |-> d < 0,
               mag |-> DDiv(DMul(DMul(Dbl1, FromLong(sampleRate)), FromLong(n)),
                            FromLongMag(d))]] : d \in LongOf(x) }

init(theSweep) ==
    IF theSweep
    THEN [sweep |-> TRUE, numBurst |-> SweepBursts, startFreq |-> Dbl100,
          stopFreq |-> Dbl10000, interval |-> interval]
    ELSE [sweep |-> FALSE, numBurst |-> PolarBursts, startFreq |-> Dbl1000,
          stopFreq |-> Dbl1000, interval |-> 2 * INTERVAL]

\* reset() counting one burst too few
resetOneShort ==
    LET nb == IF sweep THEN SweepBursts ELSE PolarBursts
        sf == IF sweep THEN Dbl10000 ELSE startFreq
        incs == IF sweep THEN PowResults(DDiv(Dbl10000, startFreq)) ELSE {Dbl1}
    IN  { [burstCount |-> numBurst - 1, nominalFreq |-> startFreq, numBurst |-> nb,
           stopFreq |-> sf, freqIncr |-> r, numCycle |-> c.numCycle,
           duration |-> c.duration, actualFreq |-> c.actualFreq]
          : r \in incs, c \in calc(1, startFreq) }

\* reset() starting the sweep from stopFreq instead of startFreq
resetFromStop ==
    LET nb == IF sweep THEN SweepBursts ELSE PolarBursts
        sf == IF sweep THEN Dbl10000 ELSE startFreq
        incs == IF sweep THEN PowResults(DDiv(Dbl10000, startFreq)) ELSE {Dbl1}
    IN  { [burstCount |-> numBurst, nominalFreq |-> stopFreq, numBurst |-> nb,
           stopFreq |-> sf, freqIncr |-> r, numCycle |-> c.numCycle,
           duration |-> c.duration, actualFreq |-> c.actualFreq]
          : r \in incs, c \in calc(1, stopFreq) }

reset ==
    LET nb == IF sweep THEN SweepBursts ELSE PolarBursts
        sf == IF sweep THEN Dbl10000 ELSE startFreq
        incs == IF sweep THEN PowResults(DDiv(Dbl10000, startFreq)) ELSE {Dbl1}
    IN  { [burstCount |-> numBurst, nominalFreq |-> startFreq, numBurst |-> nb,
           stopFreq |-> sf, freqIncr |-> r, numCycle |-> c.numCycle,
           duration |-> c.duration, actualFreq |-> c.actualFreq]
          : r \in incs, c \in calc(1, startFreq) }

\* next() without its test of burstCount
nextUnguarded ==
    { [ret |-> TRUE, burstCount |-> burstCount - 1, nominalFreq |-> nominalFreq,
       numCycle |-> numCycle, duration |-> duration, actualFreq |-> actualFreq] }

\* next() without its sweep branch
nextNoSweep ==
    IF burstCount > 0
    THEN { [ret |-> TRUE, burstCount |-> burstCount - 1,
            nominalFreq |-> nominalFreq, numCycle |-> numCycle,
            duration |-> duration, actualFreq |-> actualFreq] }
    ELSE { [ret |-> FALSE, burstCount |-> burstCount, nominalFreq |-> nominalFreq,
            numCycle |-> numCycle, duration |-> duration, actualFreq |-> actualFreq] }

next ==
    IF burstCount > 0
    THEN IF sweep
         THEN LET f == DMul(nominalFreq, freqIncr)
              IN  { [ret |-> TRUE, burstCount |-> burstCount - 1, nominalFreq |-> f,
                     numCycle |-> c.numCycle, duration |-> c.duration,
                     actualFreq |-> c.actualFreq] : c \in calc(numCycle, f) }
         ELSE { [ret |-> TRUE, burstCount |-> burstCount - 1,
                 nominalFreq |-> nominalFreq, numCycle |-> numCycle,
                 duration |-> duration, actualFreq |-> actualFreq] }
    ELSE { [ret |-> FALSE, burstCount |-> burstCount, nominalFreq |-> nominalFreq,
            numCycle |-> numCycle, duration |-> duration, actualFreq |-> actualFreq] }

good == burstCount > 0

\* getSize() leaving the delay out
getSizeNoDelay == Mul4Wrap(interval * numAvg * numBurst)

getSize == Mul4Wrap(interval * numAvg * numBurst + delay)

\* the two loops of read() and write(): numAvg * interval passes, each
\* transferring one sample per channel
Passes == (IF numAvg > 0 THEN numAvg ELSE 0) * (IF interval > 0 THEN interval ELSE 0)

\* n reads of 2 bytes: a read past the end sets eofbit (and failbit), and
\* reads on a failed stream transfer nothing
ReadSamples(n) ==
    IF eofbit THEN [pos |-> pos, eofbit |-> TRUE]
    ELSE IF n > file.avail - pos THEN [pos |-> file.avail, eofbit |-> TRUE]
    ELSE [pos |-> pos + n, eofbit |-> FALSE]

\* n writes of 2 bytes: a write the device refuses sets badbit, and writes
\* on a failed stream transfer nothing
WriteSamples(n) ==
    IF badbit THEN [pos |-> pos, badbit |-> TRUE]
    ELSE IF n > file.avail - pos THEN [pos |-> file.avail, badbit |-> TRUE]
    ELSE [pos |-> pos + n, badbit |-> FALSE]

\* read() taking one channel per pass
readOneChannel == ReadSamples(Passes)

read == ReadSamples(2 * Passes)

write == WriteSamples(2 * Passes)

\* the windows read() correlates over, for sample index j of a pass
InSignal(j) == j < duration
InBackground(j) ==
    /\ j < SubWrap(interval, duration)
    /\ j >= SubWrap(interval, Mul2Wrap(duration))

(***************************************************************************)
(* The runs explored: command lines and files.                             *)
(***************************************************************************)
MaxDelay == 1
MaxAvg == 1
BigAvg == 170
MaxExtra == 1

Progs == {"tbg", "tba"}
Delays == (-1)..MaxDelay
Avgs == ((-1)..MaxAvg) \cup {BigAvg}
StartFreqs == {Dbl1em5, Dbl1, Dbl100, Dbl20000}

\* what the switch of main() leaves in the burst object, by argc
EffPolar(a) == a.argc = 6 /\ a.polar
EffAvg(a) == IF a.argc >= 4 THEN a.numAvg ELSE 1
EffDelay(a) == IF a.argc >= 3 THEN a.delay ELSE INTERVAL

\* the 2-byte samples a complete run transfers after the header
SlotSamples(a) ==
    2 * (IF EffPolar(a) THEN 2 * INTERVAL ELSE INTERVAL)
      * (IF EffAvg(a) > 0 THEN EffAvg(a) ELSE 0)
ExpectedSamples(a) ==
    2 * (IF EffDelay(a) > 0 THEN EffDelay(a) ELSE 0)
    + SlotSamples(a) * (IF EffPolar(a) THEN PolarBursts ELSE SweepBursts)

Cmd(c, d, n, f, p) ==
    [argc |-> c, delay |-> d, numAvg |-> n, startFreq |-> f, polar |-> p]

\* a file that opens, holds its header and every sample
Whole(a) == [opens |-> TRUE, header |-> TRUE, avail |-> ExpectedSamples(a)]

\* a file that ends (or a device that fills up) `short` whole burst slots
\* before the end, give or take `extra` samples
Cut(a, short, extra) ==
    LET n == ExpectedSamples(a) - short * SlotSamples(a) + extra
    IN  [opens |-> TRUE, header |-> TRUE, avail |-> IF n > 0 THEN n ELSE 0]

\* start frequency and mode vary, the file is whole
FreqRuns ==
    { [prog |-> p, args |-> Cmd(c, 0, 1, f, c = 6), file |-> Whole(Cmd(c, 0, 1, f, c = 6))]
      : p \in Progs, c \in {5, 6}, f \in StartFreqs }

\* delay, averaging and mode vary, the file is whole
SizeRuns ==
    { [prog |-> p, args |-> Cmd(c, d, n, Dbl1000, c = 6),
       file |-> Whole(Cmd(c, d, n, Dbl1000, c = 6))]
      : p \in Progs, c \in {4, 6}, d \in Delays, n \in Avgs }

\* the file varies: it does not open, has no whole header, or ends early
FilesFor(a) ==
    { [opens |-> FALSE, header |-> FALSE, avail |-> 0],
      [opens |-> TRUE, header |-> FALSE, avail |-> 0] }
    \cup { Cut(a, s, x) : s \in {0, 1, IF EffPolar(a) THEN PolarBursts ELSE SweepBursts},
                          x \in (-1)..MaxExtra }

FileRuns ==
    UNION { { [prog |-> p, args |-> a, file |-> f] : p \in Progs, f \in FilesFor(a) }
            : a \in { Cmd(c, 1, 1, Dbl1000, c = 6) : c \in {2, 3, 6} } }

\* the argument count varies
UsageRuns ==
    { [prog |-> p, args |-> Cmd(c, 0, 1, Dbl100, FALSE),
       file |-> Whole(Cmd(c, 0, 1, Dbl100, FALSE))]
      : p \in Progs, c \in {1, 6, 7} }

Runs == FreqRuns \cup SizeRuns \cup FileRuns \cup UsageRuns

(***************************************************************************)
(* Construction: toneBurst::toneBurst(), before main() reads argv.         *)
(***************************************************************************)
Constructed ==
    /\ interval = INTERVAL
    /\ delay = INTERVAL
    /\ numBurst = SweepBursts
    /\ burstCount = 0
    /\ numAvg = 1
    /\ nominalFreq = Dbl100
    /\ startFreq = Dbl100
    /\ stopFreq = Dbl10000
    /\ freqIncr = Dbl1
    /\ sweep = TRUE
    /\ \E c \in calc(1, Dbl100) :
          /\ numCycle = c.numCycle
          /\ duration = c.duration
          /\ actualFreq = c.actualFreq

Init ==
    /\ \E r \in Runs : prog = r.prog /\ args = r.args /\ file = r.file
    /\ pc = "args"
    /\ ret = 0
    /\ Constructed
    /\ riffSize = 0 /\ dataSize = 0
    /\ pos = 0 /\ eofbit = FALSE /\ badbit = FALSE
    /\ shown = 0
    /\ call = [op |-> "none", ret |-> FALSE]
    /\ wave = <<>>

Exit(code) == pc' = "exit" /\ ret' = code

(***************************************************************************)
(* main() of tbg.cpp and tba.cpp, step by step.                            *)
(***************************************************************************)
\* the switch on argc, cases falling through
ParseArgs ==
    /\ pc = "args"
    /\ IF args.argc \in 2..6
       THEN LET i == IF args.argc = 6 /\ args.polar THEN init(FALSE)
                     ELSE [sweep |-> sweep, numBurst |-> numBurst,
                           startFreq |-> startFreq, stopFreq |-> stopFreq,
                           interval |-> interval]
            IN  /\ sweep' = i.sweep
                /\ numBurst' = i.numBurst
                /\ stopFreq' = i.stopFreq
                /\ interval' = i.interval
                /\ startFreq' = IF args.argc >= 5 THEN args.startFreq ELSE i.startFreq
                /\ numAvg' = IF args.argc >= 4 THEN args.numAvg ELSE numAvg
                /\ delay' = IF args.argc >= 3 THEN args.delay ELSE delay
                /\ pc' = IF prog = "tbg" THEN "size" ELSE "open"
                /\ ret' = ret
       ELSE /\ Exit(-1)
            /\ UNCHANGED <<sweep, numBurst, stopFreq, interval, startFreq, numAvg, delay>>
    /\ UNCHANGED <<inVars, duration, burstCount, numCycle, nominalFreq, actualFreq,
                   freqIncr, hdVars, ioVars, shown, call>>
    /\ UNCHANGED wave

\* riffChunk::setSize and dataChunk::setSize on getSize()
\* riffChunk::setSize: the data size plus the rest of the header
riffSetSize(theSize) == AddWrap(theSize, HeaderBytes)

TbgSetSize ==
    /\ pc = "size" /\ prog = "tbg"
    /\ riffSize' = riffSetSize(getSize)
    /\ dataSize' = getSize
    /\ pc' = "open"
    /\ UNCHANGED <<inVars, ret, tbVars, ioVars, shown, call>>
    /\ UNCHANGED wave

OpenFile ==
    /\ pc = "open"
    /\ IF file.opens THEN pc' = "header" /\ ret' = ret ELSE Exit(-2)
    /\ UNCHANGED <<inVars, tbVars, hdVars, ioVars, shown, call>>
    /\ UNCHANGED wave

\* tbg: three writes, then outfile.fail()
TbgHeader ==
    /\ pc = "header" /\ prog = "tbg"
    /\ IF file.header THEN pc' = "delay" /\ ret' = ret ELSE Exit(-3)
    /\ UNCHANGED <<inVars, tbVars, hdVars, ioVars, shown, call>>
    /\ UNCHANGED wave

\* tba: three reads, then infile.eof()
TbaHeader ==
    /\ pc = "header" /\ prog = "tba"
    /\ IF file.header THEN pc' = "delay" /\ ret' = ret ELSE Exit(-3)
    /\ UNCHANGED <<inVars, tbVars, hdVars, ioVars, shown, call>>
    /\ UNCHANGED wave

\* the delay loop: `delay` passes, none when delay <= 0
TbgDelay ==
    /\ pc = "delay" /\ prog = "tbg"
    /\ LET w == WriteSamples(2 * (IF delay > 0 THEN delay ELSE 0))
       IN  pos' = w.pos /\ badbit' = w.badbit
    /\ pc' = "reset"
    /\ UNCHANGED <<inVars, ret, tbVars, hdVars, eofbit, shown, call>>
    /\ UNCHANGED wave

TbaDelay ==
    /\ pc = "delay" /\ prog = "tba"
    /\ LET r == ReadSamples(2 * (IF delay > 0 THEN delay ELSE 0))
       IN  pos' = r.pos /\ eofbit' = r.eofbit
    /\ pc' = "reset"
    /\ UNCHANGED <<inVars, ret, tbVars, hdVars, badbit, shown, call>>
    /\ UNCHANGED wave

\* the effect of reset() and of next() on the burst object
DoReset ==
    /\ \E r \in reset :
          /\ burstCount' = r.burstCount
          /\ nominalFreq' = r.nominalFreq
          /\ numBurst' = r.numBurst
          /\ stopFreq' = r.stopFreq
          /\ freqIncr' = r.freqIncr
          /\ numCycle' = r.numCycle
          /\ duration' = r.duration
          /\ actualFreq' = r.actualFreq
    /\ UNCHANGED <<interval, numAvg, startFreq, sweep, delay>>

DoNext(r) ==
    /\ burstCount' = r.burstCount
    /\ nominalFreq' = r.nominalFreq
    /\ numCycle' = r.numCycle
    /\ duration' = r.duration
    /\ actualFreq' = r.actualFreq
    /\ UNCHANGED <<interval, numBurst, numAvg, startFreq, stopFreq, freqIncr,
                   sweep, delay>>

\* for (myBurst.reset(); ...
LoopReset ==
    /\ pc = "reset"
    /\ DoReset
    /\ pc' = "test"
    /\ UNCHANGED <<inVars, ret, hdVars, ioVars, shown, call>>
    /\ UNCHANGED wave

\* ... myBurst.good(), true: the body of the generator's loop
TbgBody ==
    /\ pc = "test" /\ prog = "tbg" /\ good
    /\ IF badbit
       THEN Exit(-4) /\ UNCHANGED <<ioVars, shown, wave>>
       ELSE /\ pos' = write.pos /\ badbit' = write.badbit
            /\ wave' = Append(wave, [start |-> pos, nominalFreq |-> nominalFreq,
                                      numCycle |-> numCycle, duration |-> duration,
                                      freqIncr |-> freqIncr])
            /\ shown' = shown + 1
            /\ pc' = "next" /\ UNCHANGED <<ret, eofbit>>
    /\ UNCHANGED <<inVars, tbVars, hdVars, call>>

\* ... myBurst.good(), true: the body of the analyzer's loop
TbaBody ==
    /\ pc = "test" /\ prog = "tba" /\ good
    /\ IF eofbit
       THEN Exit(-4) /\ UNCHANGED <<ioVars, shown>>
       ELSE /\ pos' = read.pos /\ eofbit' = read.eofbit
            /\ shown' = shown + 1
            /\ pc' = "next" /\ UNCHANGED <<ret, badbit>>
    /\ UNCHANGED <<inVars, tbVars, hdVars, call>>
    /\ UNCHANGED wave

\* ... myBurst.next())
LoopNext ==
    /\ pc = "next"
    /\ \E r \in next : DoNext(r)
    /\ pc' = "test"
    /\ UNCHANGED <<inVars, ret, hdVars, ioVars, shown, call>>
    /\ UNCHANGED wave

\* ... myBurst.good(), false: return 0
LoopExit ==
    /\ pc = "test" /\ ~good
    /\ Exit(0)
    /\ UNCHANGED <<inVars, tbVars, hdVars, ioVars, shown, call>>
    /\ UNCHANGED wave

Next ==
    \/ ParseArgs
    \/ TbgSetSize
    \/ OpenFile
    \/ TbgHeader
    \/ TbaHeader
    \/ TbgDelay
    \/ TbaDelay
    \/ LoopReset
    \/ TbgBody
    \/ TbaBody
    \/ LoopNext
    \/ LoopExit

Spec == Init /\ [][Next]_vars

(***************************************************************************)
(* The two programs in turn: tbg writes a file, then tba is run on that    *)
(* file with the same command line.                                        *)
(***************************************************************************)
\* start frequency and mode vary (sweeps from a frequency long() can take),
\* and in polar mode delay and averaging as well
PairRuns ==
    { [prog |-> "tbg", args |-> Cmd(c, 0, 1, f, c = 6), file |-> Whole(Cmd(c, 0, 1, f, c = 6))]
      : c \in {5, 6}, f \in StartFreqs \ {Dbl1em5} }
    \cup { [prog |-> "tbg", args |-> Cmd(6, d, n, f, TRUE), file |-> Whole(Cmd(6, d, n, f, TRUE))]
           : d \in Delays, n \in Avgs, f \in {Dbl1em5, Dbl1000} }

InitPair ==
    /\ \E r \in PairRuns : prog = r.prog /\ args = r.args /\ file = r.file
    /\ pc = "args"
    /\ ret = 0
    /\ Constructed
    /\ riffSize = 0 /\ dataSize = 0
    /\ pos = 0 /\ eofbit = FALSE /\ badbit = FALSE
    /\ shown = 0
    /\ call = [op |-> "none", ret |-> FALSE]
    /\ wave = <<>>

\* tbg has returned 0 with every write accepted: tba starts, with a burst
\* object of its own, on the file as tbg left it
RunAnalyzer ==
    /\ prog = "tbg" /\ pc = "exit" /\ ret = 0 /\ ~badbit
    /\ prog' = "tba"
    /\ file' = [opens |-> TRUE, header |-> TRUE, avail |-> pos]
    /\ pc' = "args"
    /\ interval' = INTERVAL
    /\ delay' = INTERVAL
    /\ numBurst' = SweepBursts
    /\ burstCount' = 0
    /\ numAvg' = 1
    /\ nominalFreq' = Dbl100
    /\ startFreq' = Dbl100
    /\ stopFreq' = Dbl10000
    /\ freqIncr' = Dbl1
    /\ sweep' = TRUE
    /\ \E c \in calc(1, Dbl100) :
          /\ numCycle' = c.numCycle
          /\ duration' = c.duration
          /\ actualFreq' = c.actualFreq
    /\ pos' = 0
    /\ shown' = 0
    /\ UNCHANGED <<args, ret, hdVars, eofbit, badbit, call, wave>>

NextPair ==
    \/ Next
    \/ RunAnalyzer

SpecPair == InitPair /\ [][NextPair]_vars

(***************************************************************************)
(* A client of the class alone: construct, set the public startFreq and    *)
(* call init() at most once, then reset(), next() and good() in any order. *)
(***************************************************************************)
InitApi ==
    /\ prog = "api"
    /\ args = Cmd(0, 0, 1, Dbl100, FALSE)
    /\ file = [opens |-> FALSE, header |-> FALSE, avail |-> 0]
    /\ pc = "new"
    /\ ret = 0
    /\ Constructed
    /\ riffSize = 0 /\ dataSize = 0
    /\ pos = 0 /\ eofbit = FALSE /\ badbit = FALSE
    /\ shown = 0
    /\ call = [op |-> "none", ret |-> FALSE]
    /\ wave = <<>>

ApiInit ==
    /\ pc = "new"
    /\ \E s \in BOOLEAN :
          LET i == init(s)
          IN  /\ sweep' = i.sweep
              /\ numBurst' = i.numBurst
              /\ startFreq' = i.startFreq
              /\ stopFreq' = i.stopFreq
              /\ interval' = i.interval
    /\ pc' = "set"
    /\ call' = [op |-> "init", ret |-> FALSE]
    /\ UNCHANGED <<inVars, ret, duration, burstCount, numAvg, numCycle, nominalFreq,
                   actualFreq, freqIncr, delay, hdVars, ioVars, shown>>
    /\ UNCHANGED wave

ApiSetStart ==
    /\ pc \in {"new", "set"}
    /\ \E f \in StartFreqs : startFreq' = f
    /\ pc' = "ready"
    /\ call' = [op |-> "startFreq", ret |-> FALSE]
    /\ UNCHANGED <<inVars, ret, duration, interval, numBurst, burstCount, numAvg,
                   numCycle, nominalFreq, actualFreq, stopFreq, freqIncr, sweep, delay,
                   hdVars, ioVars, shown>>
    /\ UNCHANGED wave

ApiReset ==
    /\ pc \in {"new", "set", "ready", "run"}
    /\ DoReset
    /\ pc' = "run"
    /\ call' = [op |-> "reset", ret |-> FALSE]
    /\ UNCHANGED <<inVars, ret, hdVars, ioVars, shown>>
    /\ UNCHANGED wave

ApiNext ==
    /\ pc = "run"
    /\ \E r \in next : DoNext(r) /\ call' = [op |-> "next", ret |-> r.ret]
    /\ UNCHANGED <<inVars, pc, ret, hdVars, ioVars, shown>>
    /\ UNCHANGED wave

ApiGood ==
    /\ pc = "run"
    /\ call' = [op |-> "good", ret |-> good]
    /\ UNCHANGED <<inVars, pc, ret, tbVars, hdVars, ioVars, shown>>
    /\ UNCHANGED wave

NextApi ==
    \/ ApiInit
    \/ ApiSetStart
    \/ ApiReset
    \/ ApiNext
    \/ ApiGood

SpecApi == InitApi /\ [][NextApi]_vars

(***************************************************************************)
(* Properties.                                                             *)
(***************************************************************************)
\* C1: an analyzer run on a file that opens but ends before the delay and
\* every burst slot have been read (in the delay, inside any burst, the last
\* one included, or on a burst boundary) never exits with status 0.
C1_TruncatedInputExitsNonzero ==
    (prog = "tba" /\ pc = "exit" /\ file.opens /\ file.avail < ExpectedSamples(args))
        => ret # 0

\* C2: in a generator run that succeeds, the size stored in the data chunk
\* is the number of bytes written after the header, whatever delay, number
\* of averages, start frequency and mode the command line gives.
C2_DataSizeIsBytesWritten ==
    (prog = "tbg" /\ pc = "exit" /\ ret = 0 /\ ~badbit)
        => (dataSize >= 0 /\ dataSize % 2 = 0 /\ dataSize \div 2 = pos)

\* the least number of whole cycles that fill burstMin samples at f
LeastCycles(n, f) ==
    LET q == DDiv(FromLong(sampleRate), f)
    IN  /\ n >= 1
        /\ ~TooShort(q, n)
        /\ n > 1 => TooShort(q, n - 1)

\* C3: after reset() and after every next() that returns true, numCycle is
\* the smallest positive n with (sampleRate / nominalFreq) * n >= burstMin.
C3_NumCycleIsLeast ==
    pc \in {"test", "next"} => LeastCycles(numCycle, nominalFreq)

\* long() in calc() was given a value a long holds, so that duration is the
\* one value the source fixes
DurationDefined ==
    FitsLong(DMul(DDiv(FromLong(sampleRate), nominalFreq), FromLong(numCycle)))

\* C4: once calc() has run, the burst is no longer than its slot:
\* duration <= interval.  (Stated for the runs in which long() is defined:
\* a violation then owes nothing to what an out-of-range conversion leaves.)
C4_DurationWithinInterval == DurationDefined => duration <= interval

\* C5: calc() leaves numCycle >= 1 and
\* duration = floor((sampleRate / nominalFreq) * numCycle) >= burstMin.
C5_DurationIsFloor ==
    LET x == DMul(DDiv(FromLong(sampleRate), nominalFreq), FromLong(numCycle))
    IN  /\ numCycle >= 1
        /\ FitsLong(x)
        /\ duration = Trunc(x)
        /\ duration >= burstMin

\* C6: for every burst read() has correlated, the background window holds
\* exactly `duration` sample indices of the slot 0 .. interval - 1 and shares
\* none with the signal window.  (Stated for the runs in which long() is
\* defined, as C4.)
C6_BackgroundWindowSound ==
    (prog = "tba" /\ pc = "next" /\ DurationDefined)
        => /\ Cardinality({ j \in 0..(interval - 1) : InBackground(j) }) = duration
           /\ \A j \in 0..(interval - 1) : ~(InSignal(j) /\ InBackground(j))

\* C7: good() returns false exactly when burstCount = 0, and next() called
\* with no burst remaining returns false and leaves nominalFreq, actualFreq,
\* numCycle, duration and burstCount as they were.
C7_ExhaustedIteratorIsInert ==
    [][ /\ call'.op = "good" => (call'.ret = FALSE <=> burstCount' = 0)
        /\ (call'.op = "next" /\ burstCount = 0)
              => /\ call'.ret = FALSE
                 /\ UNCHANGED <<nominalFreq, actualFreq, numCycle, duration, burstCount>>
      ]_vars

C7_ExhaustedNextCalled ==
    pc = "run" /\ call = [op |-> "next", ret |-> FALSE] /\ burstCount = 0

\* x and y differ by at most `ulps` units in the last place of y
Within(x, y, ulps) ==
    /\ x.e = y.e
    /\ x.hi - y.hi \in {-1, 0, 1}
    /\ LET d == ((x.hi - y.hi) * W) + (x.lo - y.lo)
       IN  d <= ulps /\ -d <= ulps

\* C8, as the specification states it: the first burst processed is at
\* startFreq and the 201st, after 200 multiplications, is at stopFreq.
C8_LastBurstEqualsStop ==
    (sweep /\ pc = "next")
        => /\ shown = 1 => nominalFreq = startFreq
           /\ burstCount = 1 => nominalFreq = stopFreq

\* C8, amended: in sweep mode nominalFreq is startFreq after reset() and at
\* the first burst processed, every next() that returns true multiplies it by
\* freqIncr, and at the 201st burst processed, after 200 multiplications, it
\* is within 8192 units in the last place of stopFreq (2^-26 Hz at 10000.0).
C8_SweepReachesStopWithinTolerance ==
    /\ [](sweep /\ pc = "test" /\ burstCount = numBurst => nominalFreq = startFreq)
    /\ []((sweep /\ pc = "next")
             => /\ shown = 1 => nominalFreq = startFreq
                /\ burstCount = 1 => Within(nominalFreq, stopFreq, 8192))
    /\ [][(sweep /\ pc = "next" /\ pc' = "test")
             => nominalFreq' = DMul(nominalFreq, freqIncr)]_vars

C8_LastBurstOfDefaultSweep ==
    /\ sweep /\ pc = "next" /\ burstCount = 1 /\ shown = SweepBursts
    /\ startFreq = Dbl100 /\ stopFreq = Dbl10000
    /\ nominalFreq # stopFreq

\* C9: in polar mode every burst is at the startFreq in effect at reset(),
\* with the numCycle, duration and actualFreq calc() gives for it, and
\* next() changes nothing but burstCount.
C9_PolarFrequencyConstant ==
    /\ [](~sweep /\ pc \in {"test", "next"}
             => /\ nominalFreq = startFreq
                /\ \E c \in calc(1, startFreq) :
                      /\ numCycle = c.numCycle /\ duration = c.duration
                      /\ actualFreq = c.actualFreq)
    /\ [][(~sweep /\ pc = "next" /\ pc' = "test")
             => /\ burstCount' = burstCount - 1
                /\ UNCHANGED <<nominalFreq, actualFreq, numCycle, duration, interval,
                               numBurst, numAvg, startFreq, stopFreq, freqIncr,
                               sweep, delay>>]_vars

C9_AllPolarBurstsProcessed ==
    ~sweep /\ pc = "test" /\ burstCount = 0 /\ shown = PolarBursts
           /\ startFreq # Dbl1000 /\ nominalFreq = startFreq

\* the generator's defaults in sweep mode, once the sizes are set
DefaultSizesSet ==
    /\ prog = "tbg" /\ args.argc \in 2..6 /\ pc \notin {"args", "size"}
    /\ interval = INTERVAL /\ numAvg = 1 /\ numBurst = SweepBursts /\ delay = INTERVAL

\* C10, as the specification states it: with the generator's defaults the
\* data chunk's size is 1,776,600 bytes and the RIFF chunk's size is 36 more.
C10_DefaultSizeAsStated ==
    DefaultSizesSet => (dataSize = 1776600 /\ riffSize = 1776600 + 36)

\* C10, amended: with the generator's defaults (interval 22050, numAvg 1,
\* numBurst 201, delay 22050) the data chunk's size is
\* 2 * 2 * (22050 * 1 * 201 + 22050) = 17,816,400 bytes and the RIFF chunk's
\* size is that + 36 = 17,816,436.
C10_DefaultSize ==
    DefaultSizesSet => (dataSize = 17816400 /\ riffSize = 17816400 + 36)

C10_DefaultRunWritten ==
    /\ DefaultSizesSet /\ pc = "exit" /\ ret = 0 /\ ~badbit
    /\ dataSize = 17816400 /\ 2 * pos = dataSize

\* C11: a generator run in which a write of burst samples failed, in any
\* burst of the loop, the last one included, never exits with status 0.
C11_WriteFailureExitsNonzero ==
    (prog = "tbg" /\ pc = "exit" /\ badbit /\ shown > 0) => ret # 0

\* main() has a step to take: the statement at pc can run
CanStep ==
    \/ pc \in {"args", "open"}
    \/ pc = "size" /\ prog = "tbg"
    \/ pc \in {"header", "delay"} /\ prog \in Progs
    \/ pc = "reset" /\ reset # {}
    \/ pc = "test" /\ (~good \/ prog \in Progs)
    \/ pc = "next" /\ next # {}

\* the steps main() has left at most: a measure every step lowers
StepsLeft ==
    CASE pc = "args" -> (2 * SweepBursts) + 7
      [] pc = "size" -> (2 * SweepBursts) + 6
      [] pc = "open" -> (2 * SweepBursts) + 5
      [] pc = "header" -> (2 * SweepBursts) + 4
      [] pc = "delay" -> (2 * SweepBursts) + 3
      [] pc = "reset" -> (2 * SweepBursts) + 2
      [] pc = "test" -> (2 * burstCount) + 1
      [] pc = "next" -> 2 * burstCount
      [] OTHER -> 0

\* C12: driven as the front-ends drive it, burstCount is numBurst right
\* after reset(), goes down by exactly one at every next(), and stays within
\* 0 .. numBurst, with numBurst 201 in sweep mode and 72 in polar mode; the
\* bursts processed and the bursts remaining add up to numBurst, so the loop
\* is left through good() = false after exactly numBurst bursts; and the
\* loop terminates: before main() returns it always has a step to take, and
\* every step lowers StepsLeft, which is never negative.
C12_LoopCountsDown ==
    /\ [](/\ 0 <= burstCount /\ burstCount <= numBurst
          /\ numBurst = IF sweep THEN SweepBursts ELSE PolarBursts
          /\ pc = "test" => shown + burstCount = numBurst
          /\ pc = "next" => shown + burstCount = numBurst + 1
          /\ (pc = "exit" /\ ret = 0) => (shown = numBurst /\ burstCount = 0)
          /\ StepsLeft >= 0
          /\ pc # "exit" => CanStep)
    /\ [][/\ (pc = "reset" /\ pc' = "test") => burstCount' = numBurst'
          /\ (pc = "next" /\ pc' = "test") => burstCount' = burstCount - 1
          /\ StepsLeft' < StepsLeft]_vars

C12_SweepLoopCompleted ==
    sweep /\ pc = "exit" /\ ret = 0 /\ shown = SweepBursts /\ burstCount = 0

====
